---- MODULE Spec2Model ----
(***************************************************************************)
(* Model of the linear-time WordPiece tokenizer of                         *)
(* tensorflow_text/core/kernels/fast_wordpiece_tokenizer.cc.               *)
(*                                                                         *)
(* Byte strings are sequences of byte values (0..255).  A trie node is     *)
(* identified by the byte string spelled on the path from the root, so     *)
(* the root is the empty sequence; the integer node ids of the double      *)
(* array are a renaming of these strings.  Positions in the input are      *)
(* 0-based as in the source; input[p + 1] is the byte at position p.       *)
(***************************************************************************)
EXTENDS Integers, Sequences, FiniteSets, TLC

\* ------------------------------------------------------------------------
\* Bounds of the model.
\* ------------------------------------------------------------------------
\* Longest single word enumerated exhaustively in single-word mode.
MaxWordLen == 4
\* Longest text enumerated exhaustively in end-to-end mode.
MaxTextLen == 3
\* The ghost counter of failure transitions saturates this far above the
\* input length (keeps the state space finite on a cyclic failure table).
HopSlack == 2
\* Longest id list passed to the detokenize functions on its own.
MaxIds == 3

\* ------------------------------------------------------------------------
\* Bytes that occur in the modelled vocabularies and inputs.
\* ------------------------------------------------------------------------
ch_a == 97
ch_b == 98
ch_c == 99
ch_d == 100
ch_z == 122
ch_hash == 35
ch_bang == 33
ch_space == 32
\* 0xC2 0xA1 is the UTF-8 encoding of U+00A1 (inverted exclamation mark).
ch_C2 == 194
ch_A1 == 161

\* Result of a failed UTF-8 decode (ICU's U_SENTINEL).
U_SENTINEL == -1

\* Node id meaning "no node" (fast_wordpiece_tokenizer_utils::kNullNode).
kNullNode == << -1 >>
\* The root of the trie (DartsCloneTrieWrapper::kRootNodeId).
kRootNodeId == << >>
\* Key of the dummy node the builder adds as failure target of punctuation.
kPunctNodeKey == << 17 >>

\* ------------------------------------------------------------------------
\* Sequence helpers.
\* ------------------------------------------------------------------------
Min(x, y) == IF x < y THEN x ELSE y

Max(S) == CHOOSE x \in S : \A y \in S : y <= x

\* The bytes of s at 0-based positions [from, to).
Slice(s, from, to) == SubSeq(s, from + 1, to)

IsPrefix(p, s) == Len(p) <= Len(s) /\ SubSeq(s, 1, Len(p)) = p

Prefixes(s) == { SubSeq(s, 1, k) : k \in 0..Len(s) }

\* std::vector::resize(n) on a vector of ints or strings: truncate, or pad
\* with value-initialised elements.
Resize(v, n, zero) == [i \in 1..n |-> IF i <= Len(v) THEN v[i] ELSE zero]

\* All byte strings over alphabet A of length at most n.
RECURSIVE SeqsUpTo(_, _)
SeqsUpTo(A, n) ==
  IF n = 0 THEN { << >> }
  ELSE LET shorter == SeqsUpTo(A, n - 1)
       IN  shorter \cup { Append(s, x) : s \in { t \in shorter : Len(t) = n - 1 }, x \in A }

\* ------------------------------------------------------------------------
\* UTF-8 scanner (ICU U8_NEXT) and Unicode classifier.
\* ------------------------------------------------------------------------
IsTrail(b) == b >= 128 /\ b <= 191

\* Is t a valid first trail byte after lead byte b0 of a 3- or 4-byte form?
ValidSecond(b0, t) ==
  IF b0 = 224 THEN t >= 160 /\ t <= 191
  ELSE IF b0 = 237 THEN t >= 128 /\ t <= 159
  ELSE IF b0 = 240 THEN t >= 144 /\ t <= 191
  ELSE IF b0 = 244 THEN t >= 128 /\ t <= 143
  ELSE IsTrail(t)

\* U8_NEXT(s, i, length, c): decodes the code point that starts at 0-based
\* position i < length and returns it with the position after it.  An
\* ill-formed sequence yields U_SENTINEL and advances past the lead byte and
\* the trail bytes that were still valid.
U8_NEXT(s, i, length) ==
  LET b0 == s[i + 1]
      has(k) == i + k < length
      t(k) == s[i + k + 1]
  IN  IF b0 < 128 THEN [c |-> b0, next |-> i + 1]
      ELSE IF b0 >= 194 /\ b0 <= 223 THEN
        IF has(1) /\ IsTrail(t(1))
        THEN [c |-> (b0 % 32) * 64 + (t(1) % 64), next |-> i + 2]
        ELSE [c |-> U_SENTINEL, next |-> i + 1]
      ELSE IF b0 >= 224 /\ b0 <= 239 THEN
        IF ~(has(1) /\ ValidSecond(b0, t(1))) THEN [c |-> U_SENTINEL, next |-> i + 1]
        ELSE IF ~(has(2) /\ IsTrail(t(2))) THEN [c |-> U_SENTINEL, next |-> i + 2]
        ELSE [c |-> (b0 % 16) * 4096 + (t(1) % 64) * 64 + (t(2) % 64), next |-> i + 3]
      ELSE IF b0 >= 240 /\ b0 <= 244 THEN
        IF ~(has(1) /\ ValidSecond(b0, t(1))) THEN [c |-> U_SENTINEL, next |-> i + 1]
        ELSE IF ~(has(2) /\ IsTrail(t(2))) THEN [c |-> U_SENTINEL, next |-> i + 2]
        ELSE IF ~(has(3) /\ IsTrail(t(3))) THEN [c |-> U_SENTINEL, next |-> i + 3]
        ELSE [c |-> (b0 % 8) * 262144 + (t(1) % 64) * 4096 + (t(2) % 64) * 64 + (t(3) % 64),
              next |-> i + 4]
      ELSE [c |-> U_SENTINEL, next |-> i + 1]

\* UTF-8 encoding of a code point below U+10000.
Utf8Encode(c) ==
  IF c < 128 THEN << c >>
  ELSE IF c < 2048 THEN << 192 + (c \div 64), 128 + (c % 64) >>
  ELSE << 224 + (c \div 4096), 128 + ((c \div 64) % 64), 128 + (c % 64) >>

\* The Unicode White_Space property.
u_isUWhiteSpace(c) ==
  c \in (9..13) \cup {32, 133, 160, 5760} \cup (8192..8202) \cup {8232, 8233, 8239, 8287, 12288}

\* Code points of Latin-1 in the general categories P* and S* other than the
\* ASCII ones (the classifier's table is modelled up to U+00FF).
Latin1PunctOrSymbol ==
  (161..169) \cup {171, 172} \cup (174..177) \cup {180, 182, 183, 184, 187, 191, 215, 247}

IsPunctuationOrChineseChar(c) ==
  \/ (c >= 19968 /\ c <= 40959) \/ (c >= 13312 /\ c <= 19903)
  \/ (c >= 131072 /\ c <= 173791) \/ (c >= 173824 /\ c <= 177983)
  \/ (c >= 177984 /\ c <= 178207) \/ (c >= 178208 /\ c <= 183983)
  \/ (c >= 63744 /\ c <= 64255) \/ (c >= 194560 /\ c <= 195103)
  \/ (c >= 33 /\ c <= 47) \/ (c >= 58 /\ c <= 64)
  \/ (c >= 91 /\ c <= 96) \/ (c >= 123 /\ c <= 126)
  \/ c \in Latin1PunctOrSymbol

\* The code points of a byte string, in order (U_SENTINEL for ill-formed).
RECURSIVE CodePointsFrom(_, _)
CodePointsFrom(s, i) ==
  IF i >= Len(s) THEN << >>
  ELSE LET d == U8_NEXT(s, i, Len(s)) IN << d.c >> \o CodePointsFrom(s, d.next)

CodePoints(s) == CodePointsFrom(s, 0)

\* ------------------------------------------------------------------------
\* Encoded token values: the triple (token id, byte length without the
\* suffix indicator, is-suffix flag).
\* ------------------------------------------------------------------------
EncodeToken(id, len, suffix) == [id |-> id, len |-> len, suffix |-> suffix]

GetTokenId(v) == v.id

GetTokenLength(v) == v.len

IsSuffixToken(v) == v.suffix

\* Marks a trie node that carries no vocabulary entry.
NoData == [id |-> -1, len |-> 0, suffix |-> FALSE]

\* ------------------------------------------------------------------------
\* The model container as the offline builder produces it.  A model is
\* given by its vocabulary and settings; the trie over the vocabulary, the
\* failure links and failure pops, and the precomputed result for the suffix
\* indicator are functions of them.
\* ------------------------------------------------------------------------
\* The highest code point for which the builder's per-punctuation dummy
\* nodes are modelled.
MaxCodePoint == 255

Range(f) == { f[i] : i \in DOMAIN f }

\* Index of a vocabulary entry (token ids are 0-based).
VocabId(vocab, tok) == CHOOSE i \in 0..(Len(vocab) - 1) : vocab[i + 1] = tok

\* vocab_is_suffix_array: the entry is the suffix indicator plus something.
IsSuffixEntry(tok, si) == Len(tok) > Len(si) /\ IsPrefix(si, tok)

\* The byte string is exactly one punctuation/CJK code point.
IsSinglePunct(s) ==
  /\ Len(s) > 0
  /\ LET d == U8_NEXT(s, 0, Len(s))
     IN  d.next = Len(s) /\ IsPunctuationOrChineseChar(d.c)

\* End-to-end models leave out entries that contain punctuation without
\* being one punctuation code point: the text scanner never matches them.
SkippedInEndToEnd(tok, si) ==
  LET body == IF IsSuffixEntry(tok, si) THEN SubSeq(tok, Len(si) + 1, Len(tok)) ELSE tok
      cps == CodePoints(body)
  IN  /\ \E k \in 1..Len(cps) : IsPunctuationOrChineseChar(cps[k])
      /\ ~(IsSinglePunct(tok))

\* Vocabulary entries that get a trie path of their own.
IsTrieKey(m, tok) ==
  /\ tok \in Range(m.vocab)
  /\ tok # m.suffix_indicator
  /\ m.end_to_end => ~SkippedInEndToEnd(tok, m.suffix_indicator)

\* End-to-end models give every punctuation/CJK code point a node; the ones
\* outside the vocabulary carry the unknown id.
IsPunctKey(m, s) ==
  /\ m.end_to_end
  /\ IsSinglePunct(s)
  /\ U8_NEXT(s, 0, Len(s)).c <= MaxCodePoint

\* The node that is the failure target of punctuation nodes.
PunctFailureLinkNode(m) == IF m.end_to_end THEN kPunctNodeKey ELSE kNullNode

\* The byte string n spells a node of the trie: a prefix of a key.
IsNode(m, n) ==
  \/ IsPrefix(n, m.suffix_indicator)
  \/ \E i \in 1..Len(m.vocab) : IsPrefix(n, m.vocab[i]) /\ IsTrieKey(m, m.vocab[i])
  \/ /\ m.end_to_end
     /\ \/ n = kPunctNodeKey
        \/ IsPunctKey(m, n)
        \/ /\ Len(n) = 1
           /\ n[1] >= 194
           /\ \E c \in 128..MaxCodePoint :
                IsPunctuationOrChineseChar(c) /\ IsPrefix(n, Utf8Encode(c))

\* Data stored on a node: the encoded token of the entry that ends there.
NodeData(m, node) ==
  LET si == m.suffix_indicator
  IN  IF IsTrieKey(m, node)
      THEN EncodeToken(VocabId(m.vocab, node),
                       IF IsSuffixEntry(node, si) THEN Len(node) - Len(si) ELSE Len(node),
                       IsSuffixEntry(node, si))
      ELSE IF IsPunctKey(m, node)
      THEN EncodeToken(VocabId(m.vocab, m.unk_token), Len(node), FALSE)
      ELSE NoData

\* Failure link f(v) and failure pops F(v) of node v, computed from the
\* parent's as the builder's breadth-first pass does.
RECURSIVE FailureOf(_, _), FailureWalk(_, _, _, _)
FailureOf(m, v) ==
  IF v \in {kRootNodeId, m.suffix_indicator, PunctFailureLinkNode(m)}
  THEN [link |-> kNullNode, pops |-> << >>]
  ELSE IF NodeData(m, v) # NoData
  THEN [link |-> IF m.end_to_end /\ IsSinglePunct(v)
                 THEN PunctFailureLinkNode(m) ELSE m.suffix_indicator,
        pops |-> << NodeData(m, v) >>]
  ELSE LET fu == FailureOf(m, SubSeq(v, 1, Len(v) - 1))
       IN  FailureWalk(m, fu.link, v[Len(v)], fu.pops)

FailureWalk(m, z, c, acc) ==
  IF z = kNullNode THEN [link |-> kNullNode, pops |-> << >>]
  ELSE IF IsNode(m, Append(z, c)) THEN [link |-> Append(z, c), pops |-> acc]
  ELSE LET fz == FailureOf(m, z) IN FailureWalk(m, fz.link, c, acc \o fz.pops)

\* failure_struct_array and failure_pops_pool: the entry of a node.  A model
\* may carry entries that differ from what the builder computes.
FailureStruct(m, node) ==
  IF node \in DOMAIN m.failure_override THEN m.failure_override[node]
  ELSE FailureOf(m, node)

\* Greedy longest-match-first WordPiece of word w over the vocabulary: the
\* sequence of (id, start, end) it produces, with id -1 where it gets stuck.
\* At offset 0 the candidates are the entries that prefix w (every entry
\* when first_any, only non-suffix entries otherwise); afterwards the suffix
\* entries whose body prefixes the remainder.
RECURSIVE MaxMatchFrom(_, _, _, _, _)
MaxMatchFrom(vocab, si, w, pos, first_any) ==
  IF pos = Len(w) THEN << >>
  ELSE LET Entry(k) == IF pos = 0 THEN Slice(w, 0, k) ELSE si \o Slice(w, pos, k)
           cands == { k \in (pos + 1)..Len(w) :
                        /\ Entry(k) \in Range(vocab)
                        /\ (pos = 0 /\ ~first_any => ~IsSuffixEntry(Entry(k), si))
                        /\ (pos > 0 => IsSuffixEntry(Entry(k), si)) }
       IN  IF cands = { } THEN << [id |-> -1, start |-> pos, end |-> pos] >>
           ELSE << [id |-> VocabId(vocab, Entry(Max(cands))), start |-> pos,
                    end |-> Max(cands)] >>
                  \o MaxMatchFrom(vocab, si, w, Max(cands), first_any)

\* The result of greedy WordPiece on a whole word: its tokens, or the single
\* unknown token spanning the word.
MaxMatch(m, w, first_any) ==
  LET toks == MaxMatchFrom(m.vocab, m.suffix_indicator, w, 0, first_any)
  IN  IF Len(w) = 0 THEN << >>
      ELSE IF \E i \in 1..Len(toks) : toks[i].id = -1
      THEN << [id |-> VocabId(m.vocab, m.unk_token), start |-> 0, end |-> Len(w)] >>
      ELSE toks

\* precomputed_result_for_suffix_indicator: the tokenization of the word
\* that is the suffix indicator itself, as encoded token values.
PrecomputeResultForSuffixIndicator(m) ==
  LET toks == MaxMatch(m, m.suffix_indicator, TRUE)
      unk == VocabId(m.vocab, m.unk_token)
  IN  IF toks = << >> THEN << EncodeToken(unk, 0, FALSE) >>
      ELSE [i \in 1..Len(toks) |->
              EncodeToken(toks[i].id, toks[i].end - toks[i].start,
                          toks[i].id # unk /\ toks[i].start > 0)]

\* The vocabulary and settings of a model as the builder takes them.
BuildModel(vocab, si, unk_token, max_bytes, end_to_end, detok) ==
  [vocab |-> vocab,
   suffix_indicator |-> si,
   unk_token |-> unk_token,
   max_bytes_per_token |-> max_bytes,
   end_to_end |-> end_to_end,
   support_detokenization |-> detok,
   failure_override |-> << >>]

\* ------------------------------------------------------------------------
\* The models the tokenizer is run with.
\* ------------------------------------------------------------------------
str_unk == << 91, 85, 78, 75, 93 >>          \* "[UNK]"
str_si == << ch_hash, ch_hash >>             \* "##"

\* The vocabulary of the source's running example: {a, abcd, ##b, ##bc, ##z}
\* and the unknown token.
ExampleVocab ==
  << << ch_a >>, << ch_a, ch_b, ch_c, ch_d >>, << ch_hash, ch_hash, ch_b >>,
     << ch_hash, ch_hash, ch_b, ch_c >>, << ch_hash, ch_hash, ch_z >>, str_unk >>

\* A vocabulary in which the suffix indicator itself can be tokenized:
\* {a, #, ###, ##b} and the unknown token.
HashVocab ==
  << << ch_a >>, << ch_hash >>, << ch_hash, ch_hash, ch_hash >>,
     << ch_hash, ch_hash, ch_b >>, str_unk >>

\* A degenerate model: the example model with the failure link of node "ab"
\* redirected to "ab" itself and no failure pops.
CyclicModel ==
  [BuildModel(ExampleVocab, str_si, str_unk, 100, FALSE, TRUE) EXCEPT
     !.failure_override =
        (<< ch_a, ch_b >> :> [link |-> << ch_a, ch_b >>, pops |-> << >>])]

\* The example model with the failure table as printed: node "##z", which
\* carries the entry ##z, has a null failure link.
TableModel ==
  [BuildModel(ExampleVocab, str_si, str_unk, 100, FALSE, TRUE) EXCEPT
     !.failure_override =
        (<< ch_hash, ch_hash, ch_z >> :>
           [link |-> kNullNode, pops |-> << EncodeToken(4, 1, TRUE) >>])]

TableConfigNames == {"word_table"}

ConfigNames == {"word", "text", "word_max2", "text_max1", "word_hash", "cyclic"}

\* Models whose failure table is the one the builder computes.
BuiltConfigs == ConfigNames \ {"cyclic"}

\* A model built without support for detokenization.
DetokOnlyConfigNames == {"word_nodetok"}

\* An end-to-end model with the empty suffix indicator: trie_suffix_root is
\* the root.
NoIndicatorConfigNames == {"text_nosi"}

\* Its vocabulary, ids 0, 1, 2.
NoIndicatorVocab == << << ch_a >>, << ch_a, ch_b >>, str_unk >>

Configs ==
  [name \in ConfigNames \cup DetokOnlyConfigNames \cup NoIndicatorConfigNames
             \cup TableConfigNames |->
     CASE name = "word" -> BuildModel(ExampleVocab, str_si, str_unk, 100, FALSE, TRUE)
       [] name = "text" -> BuildModel(ExampleVocab, str_si, str_unk, 100, TRUE, TRUE)
       [] name = "word_max2" -> BuildModel(ExampleVocab, str_si, str_unk, 2, FALSE, TRUE)
       [] name = "text_max1" -> BuildModel(ExampleVocab, str_si, str_unk, 1, TRUE, TRUE)
       [] name = "word_hash" -> BuildModel(HashVocab, str_si, str_unk, 100, FALSE, TRUE)
       [] name = "word_nodetok" ->
            BuildModel(ExampleVocab, str_si, str_unk, 100, FALSE, FALSE)
       [] name = "text_nosi" ->
            BuildModel(NoIndicatorVocab, << >>, str_unk, 100, TRUE, TRUE)
       [] name = "word_table" -> TableModel
       [] name = "cyclic" -> CyclicModel]

\* ------------------------------------------------------------------------
\* State.
\* ------------------------------------------------------------------------
VARIABLES
  cfg,                       \* name of the model the tokenizer was created with
  input,                     \* the bytes passed to Tokenize
  word_offset,               \* the input_word_offset_in_text argument of Tokenize
  overload,                  \* 1: pieces+ids+offsets, 2: ids+offsets, 3: ids only
  output_pieces, output_ids, output_start_offsets, output_end_offsets,
  pc,                        \* position of the call in the code
  cur_pos, next_pos,         \* scanner positions (the loop index in single-word mode)
  cur_node,                  \* the trie traversal cursor
  cur_offset_in_input_word,
  word_byte_length_so_far,
  input_word_offset_in_text, \* offset of the current word reported in the output
  original_num_tokens,
  prev_unicode_char, cur_unicode_char,
  prior,                     \* history: the containers as the caller passed them
  token_pos,                 \* history: position in the input of every token appended
  unknown_word,              \* history: the current word was reset to the unknown token
  num_failure_transitions,   \* history: failure transitions of this call (saturating)
  word_first_token,          \* history: size of the output when the current word began
  last_outer_pos,            \* history: cur_pos at the previous outer-loop iteration
  detok_input,               \* the ids passed to the detokenize functions
  detok_tokens,              \* what DetokenizeToTokens returned, or NoResult
  detok_text                 \* what Detokenize returned, or NoResult

outputs == << output_pieces, output_ids, output_start_offsets, output_end_offsets >>

call == << cfg, input, word_offset, overload, prior >>

scanner == << cur_pos, next_pos, word_byte_length_so_far, prev_unicode_char, cur_unicode_char >>

detok == << detok_input, detok_tokens, detok_text >>

vars == << cfg, input, word_offset, overload, output_pieces, output_ids,
           output_start_offsets, output_end_offsets, pc, cur_pos, next_pos, cur_node,
           cur_offset_in_input_word, word_byte_length_so_far, input_word_offset_in_text,
           original_num_tokens, prev_unicode_char, cur_unicode_char, prior, token_pos,
           unknown_word, num_failure_transitions, word_first_token, last_outer_pos,
           detok_input, detok_tokens, detok_text >>

config_ == Configs[cfg]

\* Fields of the model that the flatbuffer stores and the code reads.
unk_token_id == VocabId(config_.vocab, config_.unk_token)

trie_suffix_root == config_.suffix_indicator

trie_punct_failure_link_node == PunctFailureLinkNode(config_)

precomputed_result_for_suffix_indicator == PrecomputeResultForSuffixIndicator(config_)

failure_link(node) == FailureStruct(config_, node).link

failure_pops(node) == FailureStruct(config_, node).pops

\* The template arguments of the three Tokenize overloads.
kGetPieces == overload = 1

kGetIds == TRUE

\* A build in which no overload reports offsets.
kGetOffsets_Never == FALSE

kGetOffsets == overload \in {1, 2}

\* The test against max_bytes_per_token, on the byte length of the word.
\* A variant without the length limit comes first.
WordTooLong_Never(n) == FALSE

WordTooLong(n) == n > config_.max_bytes_per_token

\* Position in the input at which the current word starts.
WordStart == IF config_.end_to_end THEN input_word_offset_in_text ELSE 0

\* The string_view the helpers receive as input_word: it starts at the
\* current word (and in end-to-end mode runs to the end of the text).
InputWordData == Slice(input, WordStart, Len(input))

\* The outputs and the running offset, bundled for the helpers.
Out ==
  [pieces |-> output_pieces, ids |-> output_ids, starts |-> output_start_offsets,
   ends |-> output_end_offsets, cur_offset |-> cur_offset_in_input_word, pos |-> token_pos,
   unk |-> unknown_word]

SetOut(o) ==
  /\ output_pieces' = o.pieces
  /\ output_ids' = o.ids
  /\ output_start_offsets' = o.starts
  /\ output_end_offsets' = o.ends
  /\ cur_offset_in_input_word' = o.cur_offset
  /\ token_pos' = o.pos
  /\ unknown_word' = o.unk

\* ------------------------------------------------------------------------
\* Helpers of the tokenizer.
\* ------------------------------------------------------------------------
\* A variant of GetCurrentOutputSize that takes the containers for empty.
GetCurrentOutputSize_Zero(o) == 0

GetCurrentOutputSize(o) == IF kGetPieces THEN Len(o.pieces) ELSE Len(o.ids)

\* TryTraverseSeveralSteps / TryTraverseOneStep: all bytes or nothing.
TryTraverseSeveralSteps(node, bytes) == IsNode(config_, node \o bytes)

\* TryGetData: the node carries a vocabulary entry.
TryGetData(node) == NodeData(config_, node) # NoData

\* A variant of AppendTokenToOutput that never puts the suffix indicator in
\* front of a piece.
AppendTokenToOutput_NoPrefix(o, encoded_token_value) ==
  LET token_id == GetTokenId(encoded_token_value)
      token_substr_length ==
        GetTokenLength(encoded_token_value)
          + (IF o.cur_offset = 0 /\ IsSuffixToken(encoded_token_value)
             THEN Len(config_.suffix_indicator) ELSE 0)
      subword_str ==
        IF token_id = unk_token_id THEN config_.unk_token
        ELSE Slice(InputWordData, o.cur_offset, o.cur_offset + token_substr_length)
      piece == subword_str
  IN  [pieces |-> IF kGetPieces THEN Append(o.pieces, piece) ELSE o.pieces,
       ids |-> IF kGetIds THEN Append(o.ids, token_id) ELSE o.ids,
       starts |-> IF kGetOffsets
                  THEN Append(o.starts, input_word_offset_in_text + o.cur_offset)
                  ELSE o.starts,
       ends |-> IF kGetOffsets
                THEN Append(o.ends, input_word_offset_in_text + o.cur_offset
                                      + token_substr_length)
                ELSE o.ends,
       cur_offset |-> IF kGetPieces \/ kGetOffsets
                      THEN o.cur_offset + token_substr_length ELSE o.cur_offset,
       pos |-> IF kGetOffsets
               THEN Append(o.pos, [start |-> WordStart + o.cur_offset,
                                   end |-> WordStart + o.cur_offset + token_substr_length])
               ELSE o.pos,
       unk |-> o.unk]

\* A variant of AppendTokenToOutput that reports offsets inside the word,
\* without adding the offset of the word.
AppendTokenToOutput_InWord(o, encoded_token_value) ==
  LET token_id == GetTokenId(encoded_token_value)
      token_substr_length ==
        GetTokenLength(encoded_token_value)
          + (IF o.cur_offset = 0 /\ IsSuffixToken(encoded_token_value)
             THEN Len(config_.suffix_indicator) ELSE 0)
      subword_str ==
        IF token_id = unk_token_id THEN config_.unk_token
        ELSE Slice(InputWordData, o.cur_offset, o.cur_offset + token_substr_length)
      piece == IF o.cur_offset # 0 THEN config_.suffix_indicator \o subword_str
               ELSE subword_str
  IN  [pieces |-> IF kGetPieces THEN Append(o.pieces, piece) ELSE o.pieces,
       ids |-> IF kGetIds THEN Append(o.ids, token_id) ELSE o.ids,
       starts |-> IF kGetOffsets THEN Append(o.starts, o.cur_offset) ELSE o.starts,
       ends |-> IF kGetOffsets THEN Append(o.ends, o.cur_offset + token_substr_length)
                ELSE o.ends,
       cur_offset |-> IF kGetPieces \/ kGetOffsets
                      THEN o.cur_offset + token_substr_length ELSE o.cur_offset,
       pos |-> IF kGetOffsets
               THEN Append(o.pos, [start |-> WordStart + o.cur_offset,
                                   end |-> WordStart + o.cur_offset + token_substr_length])
               ELSE o.pos,
       unk |-> o.unk]

AppendTokenToOutput(o, encoded_token_value) ==
  LET token_id == GetTokenId(encoded_token_value)
      token_substr_length ==
        GetTokenLength(encoded_token_value)
          + (IF o.cur_offset = 0 /\ IsSuffixToken(encoded_token_value)
             THEN Len(config_.suffix_indicator) ELSE 0)
      subword_str ==
        IF token_id = unk_token_id THEN config_.unk_token
        ELSE Slice(InputWordData, o.cur_offset, o.cur_offset + token_substr_length)
      piece == IF o.cur_offset # 0 THEN config_.suffix_indicator \o subword_str
               ELSE subword_str
  IN  [pieces |-> IF kGetPieces THEN Append(o.pieces, piece) ELSE o.pieces,
       ids |-> IF kGetIds THEN Append(o.ids, token_id) ELSE o.ids,
       starts |-> IF kGetOffsets
                  THEN Append(o.starts, input_word_offset_in_text + o.cur_offset)
                  ELSE o.starts,
       ends |-> IF kGetOffsets
                THEN Append(o.ends, input_word_offset_in_text + o.cur_offset
                                      + token_substr_length)
                ELSE o.ends,
       cur_offset |-> IF kGetPieces \/ kGetOffsets
                      THEN o.cur_offset + token_substr_length ELSE o.cur_offset,
       pos |-> IF kGetOffsets
               THEN Append(o.pos, [start |-> WordStart + o.cur_offset,
                                   end |-> WordStart + o.cur_offset + token_substr_length])
               ELSE o.pos,
       unk |-> o.unk]

\* Appends the tokens of a list in order.
RECURSIVE AppendTokens(_, _)
AppendTokens(o, toks) ==
  IF toks = << >> THEN o
  ELSE AppendTokens(AppendTokenToOutput(o, Head(toks)), Tail(toks))

\* A variant of ResetOutputAppendUnknownToken that appends the unknown token
\* without first shrinking the containers to num entries.
ResetOutputAppendUnknownToken_NoResize(o, input_size, num) ==
  [pieces |-> IF kGetPieces THEN Append(o.pieces, config_.unk_token) ELSE o.pieces,
   ids |-> IF kGetIds THEN Append(o.ids, unk_token_id) ELSE o.ids,
   starts |-> IF kGetOffsets THEN Append(o.starts, input_word_offset_in_text) ELSE o.starts,
   ends |-> IF kGetOffsets THEN Append(o.ends, input_word_offset_in_text + input_size)
            ELSE o.ends,
   cur_offset |-> o.cur_offset,
   pos |-> IF kGetOffsets
           THEN Append(o.pos, [start |-> WordStart, end |-> WordStart + input_size])
           ELSE o.pos,
   unk |-> TRUE]

\* The outputs after the reset; the caller's original_num_tokens becomes
\* num + 1.
ResetOutputAppendUnknownToken(o, input_size, num) ==
  [pieces |-> IF kGetPieces
              THEN [Resize(o.pieces, num + 1, << >>) EXCEPT ![num + 1] = config_.unk_token]
              ELSE o.pieces,
   ids |-> IF kGetIds
           THEN [Resize(o.ids, num + 1, 0) EXCEPT ![num + 1] = unk_token_id]
           ELSE o.ids,
   starts |-> IF kGetOffsets
              THEN [Resize(o.starts, num + 1, 0) EXCEPT ![num + 1] = input_word_offset_in_text]
              ELSE o.starts,
   ends |-> IF kGetOffsets
            THEN [Resize(o.ends, num + 1, 0)
                    EXCEPT ![num + 1] = input_word_offset_in_text + input_size]
            ELSE o.ends,
   cur_offset |-> o.cur_offset,
   pos |-> IF kGetOffsets
           THEN [Resize(o.pos, num + 1, [start |-> 0, end |-> 0])
                   EXCEPT ![num + 1] = [start |-> WordStart, end |-> WordStart + input_size]]
           ELSE o.pos,
   unk |-> TRUE]

\* A variant of TryFollowFailureLinkAndCollectTokens that finds no failure
\* link to follow.
TryFollowFailureLink_Never(o, node) == [ok |-> FALSE, o |-> o, node |-> node]

\* The result of a failure transition from node: whether one was possible,
\* and the outputs and the cursor after it.
TryFollowFailureLinkAndCollectTokens(o, node) ==
  IF TryGetData(node)
  THEN [ok |-> TRUE, o |-> AppendTokenToOutput(o, NodeData(config_, node)),
        node |-> failure_link(node)]
  ELSE IF failure_link(node) = kNullNode
  THEN [ok |-> FALSE, o |-> o, node |-> node]
  ELSE [ok |-> TRUE, o |-> AppendTokens(o, failure_pops(node)),
        node |-> failure_link(node)]

\* A variant of TryHandleTheInputWordBeingSuffixIndicatorItself that never
\* applies.
TryHandleSuffixIndicator_Never(o, node, input_size, num) == [handled |-> FALSE, o |-> o]

\* The outcome of the special case "the word is the suffix indicator":
\* whether it applied, and the outputs after it.
TryHandleTheInputWordBeingSuffixIndicatorItself(o, node, input_size, num) ==
  LET pre == precomputed_result_for_suffix_indicator
  IN  IF node # trie_suffix_root THEN [handled |-> FALSE, o |-> o]
      ELSE IF GetCurrentOutputSize(o) # num THEN [handled |-> FALSE, o |-> o]
      ELSE IF Len(pre) = 1 /\ GetTokenId(pre[1]) = unk_token_id
      THEN [handled |-> TRUE, o |-> ResetOutputAppendUnknownToken(o, input_size, num)]
      ELSE [handled |-> TRUE, o |-> AppendTokens(o, pre)]

\* A variant of SkipTheRemainingOfWordAndTrailingWhiteSpaces that stops at
\* whitespace only.
RECURSIVE SkipToWhiteSpaceOnly(_, _)
SkipToWhiteSpaceOnly(text, p) ==
  IF p >= Len(text) THEN [end_of_word |-> p, cur_pos |-> p]
  ELSE LET d == U8_NEXT(text, p, Len(text))
       IN  IF u_isUWhiteSpace(d.c) THEN [end_of_word |-> p, cur_pos |-> d.next]
           ELSE SkipToWhiteSpaceOnly(text, d.next)

\* SkipTheRemainingOfWordAndTrailingWhiteSpaces from position p: the end of
\* the word and the position the scan stops at.
RECURSIVE SkipTheRemainingOfWordAndTrailingWhiteSpaces(_, _)
SkipTheRemainingOfWordAndTrailingWhiteSpaces(text, p) ==
  IF p >= Len(text) THEN [end_of_word |-> p, cur_pos |-> p]
  ELSE LET d == U8_NEXT(text, p, Len(text))
       IN  IF u_isUWhiteSpace(d.c) THEN [end_of_word |-> p, cur_pos |-> d.next]
           ELSE IF IsPunctuationOrChineseChar(d.c) THEN [end_of_word |-> p, cur_pos |-> p]
           ELSE SkipTheRemainingOfWordAndTrailingWhiteSpaces(text, d.next)

\* ------------------------------------------------------------------------
\* Detokenization.
\* ------------------------------------------------------------------------
\* vocab_array and vocab_is_suffix_array of the model: the vocabulary
\* strings without the suffix indicator, and the flags that tell which
\* entries had one.
vocab_array ==
  [i \in 0..(Len(config_.vocab) - 1) |->
     LET tok == config_.vocab[i + 1]
     IN  IF IsSuffixEntry(tok, config_.suffix_indicator)
         THEN SubSeq(tok, Len(config_.suffix_indicator) + 1, Len(tok)) ELSE tok]

vocab_is_suffix_array ==
  [i \in 0..(Len(config_.vocab) - 1) |->
     IsSuffixEntry(config_.vocab[i + 1], config_.suffix_indicator)]

\* absl::StrJoin of a list of strings with a separator.
RECURSIVE StrJoin(_, _)
StrJoin(strs, sep) ==
  IF strs = << >> THEN << >>
  ELSE IF Len(strs) = 1 THEN strs[1]
  ELSE strs[1] \o sep \o StrJoin(Tail(strs), sep)

\* No call has returned yet.
NoResult == [status |-> "none"]

\* A variant of the loop of DetokenizeToTokens without the special case for
\* a suffix token at the start of a word.
RECURSIVE DetokenizeLoop_NoIndicator(_, _, _)
DetokenizeLoop_NoIndicator(ids, subwords, output_tokens) ==
  IF ids = << >>
  THEN IF subwords # << >> THEN Append(output_tokens, StrJoin(subwords, << >>))
       ELSE output_tokens
  ELSE LET id == Head(ids)
           flush == subwords # << >> /\ ~vocab_is_suffix_array[id]
       IN  DetokenizeLoop_NoIndicator(
             Tail(ids),
             Append(IF flush THEN << >> ELSE subwords, vocab_array[id]),
             IF flush THEN Append(output_tokens, StrJoin(subwords, << >>))
             ELSE output_tokens)

\* A variant of the loop of DetokenizeToTokens that never closes a word.
RECURSIVE DetokenizeLoop_OneWord(_, _, _)
DetokenizeLoop_OneWord(ids, subwords, output_tokens) ==
  IF ids = << >>
  THEN IF subwords # << >> THEN Append(output_tokens, StrJoin(subwords, << >>))
       ELSE output_tokens
  ELSE LET id == Head(ids)
           is_suffix == vocab_is_suffix_array[id]
           opened == IF subwords = << >> /\ is_suffix
                     THEN << config_.suffix_indicator >> ELSE subwords
       IN  DetokenizeLoop_OneWord(Tail(ids), Append(opened, vocab_array[id]), output_tokens)

\* The loop of DetokenizeToTokens over the ids that remain, and the final
\* flush of the subwords.
RECURSIVE DetokenizeLoop(_, _, _)
DetokenizeLoop(ids, subwords, output_tokens) ==
  IF ids = << >>
  THEN IF subwords # << >> THEN Append(output_tokens, StrJoin(subwords, << >>))
       ELSE output_tokens
  ELSE LET id == Head(ids)
           vocab == vocab_array[id]
           is_suffix == vocab_is_suffix_array[id]
           flush == subwords # << >> /\ ~is_suffix
           tokens1 == IF flush THEN Append(output_tokens, StrJoin(subwords, << >>))
                      ELSE output_tokens
           subwords1 == IF flush THEN << >> ELSE subwords
           subwords2 == IF subwords1 = << >> /\ is_suffix
                        THEN Append(subwords1, config_.suffix_indicator) ELSE subwords1
       IN  DetokenizeLoop(Tail(ids), Append(subwords2, vocab), tokens1)

\* A variant of the guard of the detokenize functions that lets every
\* model through.
SupportsDetokenization_Always == TRUE

\* The guard of the detokenize functions.
SupportsDetokenization == config_.support_detokenization

\* Every id is an index of vocab_array.
ValidIds(ids) == \A k \in 1..Len(ids) : ids[k] \in DOMAIN vocab_array

\* DetokenizeToTokens: a status, and the words when the status is ok.  Get
\* with an index outside vocab_array has no defined result.
DetokenizeToTokens(ids) ==
  IF ~SupportsDetokenization THEN [status |-> "FailedPrecondition"]
  ELSE IF ~ValidIds(ids) THEN [status |-> "undefined"]
  ELSE [status |-> "ok", value |-> DetokenizeLoop(ids, << >>, << >>)]

\* Detokenize: the status of DetokenizeToTokens, or the words joined with
\* one space.
Detokenize(ids) ==
  LET output_tokens == DetokenizeToTokens(ids)
  IN  IF output_tokens.status # "ok" THEN output_tokens
      ELSE [status |-> "ok", value |-> StrJoin(output_tokens.value, << ch_space >>)]

\* ------------------------------------------------------------------------
\* Calls: the inputs a caller passes.
\* ------------------------------------------------------------------------
\* Bytes of the words enumerated in single-word mode.
WordBytes == {ch_a, ch_b, ch_c, ch_z, ch_hash}

\* Bytes of the texts enumerated in end-to-end mode: letters, the suffix
\* indicator's byte, punctuation, whitespace and a two-byte punctuation code
\* point, whose bytes also occur torn apart as ill-formed UTF-8.
TextBytes == {ch_a, ch_b, ch_hash, ch_bang, ch_space, ch_C2, ch_A1}

\* The inputs of the documented scenarios and longer inputs that exceed the
\* small length limits.
ScenarioInputs ==
  { << ch_a, ch_b, ch_c, ch_z >>, << ch_a, ch_b, ch_c, ch_d >>,
    << ch_a, ch_b, ch_space, ch_c, ch_d >>, << ch_a, ch_bang, ch_b >>,
    << ch_hash, ch_hash >>, << ch_a, ch_b, ch_c, ch_z, ch_a >>,
    << ch_a, ch_b, ch_a, ch_b, ch_bang >> }

Inputs ==
  [name \in ConfigNames |->
     (IF Configs[name].end_to_end THEN SeqsUpTo(TextBytes, MaxTextLen)
      ELSE SeqsUpTo(WordBytes, MaxWordLen))
       \cup ScenarioInputs]

\* The inputs of the call variants: one byte shorter, and the scenarios.
ShortInputs ==
  [name \in ConfigNames |->
     (IF Configs[name].end_to_end THEN SeqsUpTo(TextBytes, MaxTextLen - 1)
      ELSE SeqsUpTo(WordBytes, MaxWordLen - 1))
       \cup ScenarioInputs]

\* A non-zero word offset to call with.
SomeWordOffset == 5

\* Containers a caller passes: empty, or holding one earlier token each, or
\* (after an ids-only call on the same id vector) only the ids holding one.
NoPrior == [pieces |-> << >>, ids |-> << >>, starts |-> << >>, ends |-> << >>]

EqualPrior ==
  [pieces |-> << << ch_z >> >>, ids |-> << 7 >>, starts |-> << 40 >>, ends |-> << 41 >>]

UnequalPrior == [pieces |-> << >>, ids |-> << 7 >>, starts |-> << >>, ends |-> << >>]

\* The ways Tokenize is called besides the plain one (full output, empty
\* containers, word offset 0): with a word offset, with pre-filled
\* containers, and through the overloads without pieces or offsets.
CallVariants ==
  { [word_offset |-> SomeWordOffset, overload |-> 1, prior |-> NoPrior],
    [word_offset |-> 0, overload |-> 1, prior |-> EqualPrior],
    [word_offset |-> 0, overload |-> 2, prior |-> NoPrior],
    [word_offset |-> 0, overload |-> 3, prior |-> NoPrior] }

\* The models the call variants are run with.
VariantConfigs == {"word", "text"}

Calls ==
  UNION { { [cfg |-> n, input |-> i, word_offset |-> 0, overload |-> 1, prior |-> NoPrior] :
              i \in Inputs[n] } : n \in ConfigNames }
    \cup
  UNION { { [cfg |-> n, input |-> i, word_offset |-> v.word_offset,
             overload |-> v.overload, prior |-> v.prior] :
              i \in ShortInputs[n], v \in CallVariants } : n \in VariantConfigs }

\* Calls on containers of different lengths.
MixedCalls ==
  UNION { { [cfg |-> n, input |-> i, word_offset |-> 0, overload |-> 1,
             prior |-> UnequalPrior] : i \in ShortInputs[n] } : n \in VariantConfigs }

\* ------------------------------------------------------------------------
\* Initial state: a tokenizer and the arguments of one Tokenize call.
\* ------------------------------------------------------------------------
InitOf(c) ==
  /\ cfg = c.cfg
  /\ input = c.input
  /\ word_offset = c.word_offset
  /\ overload = c.overload
  /\ prior = c.prior
  /\ output_pieces = c.prior.pieces
  /\ output_ids = c.prior.ids
  /\ output_start_offsets = c.prior.starts
  /\ output_end_offsets = c.prior.ends
  /\ pc = "call"
  /\ cur_pos = 0
  /\ next_pos = 0
  /\ cur_node = kRootNodeId
  /\ cur_offset_in_input_word = 0
  /\ word_byte_length_so_far = 0
  /\ input_word_offset_in_text = IF Configs[c.cfg].end_to_end THEN 0 ELSE c.word_offset
  /\ original_num_tokens = 0
  /\ prev_unicode_char = 0
  /\ cur_unicode_char = 0
  /\ token_pos = [i \in 1..Len(c.prior.starts) |-> [start |-> 0, end |-> 0]]
  /\ unknown_word = FALSE
  /\ num_failure_transitions = 0
  /\ word_first_token = 0
  /\ last_outer_pos = -1
  /\ detok_input = << >>
  /\ detok_tokens = NoResult
  /\ detok_text = NoResult

Init == \E c \in Calls : InitOf(c)

\* Also with containers of different lengths.
InitMixed == \E c \in Calls \cup MixedCalls : InitOf(c)

\* The models the detokenize functions are called with on their own.
DetokConfigNames == {"word", "word_hash", "word_nodetok"}

\* A tokenizer on which Tokenize is called with the empty word only.
InitDetok ==
  \E n \in DetokConfigNames :
    InitOf([cfg |-> n, input |-> << >>, word_offset |-> 0, overload |-> 1, prior |-> NoPrior])

\* The id lists passed to the detokenize functions on their own: ids of the
\* vocabulary, and the first id after its end.
IdLists == SeqsUpTo(0..Len(config_.vocab), MaxIds)

\* One more failure transition, counted up to a cap above the input length.
CountFailureTransition ==
  num_failure_transitions' =
    Min(num_failure_transitions + 1, Len(input) + HopSlack)

\* ------------------------------------------------------------------------
\* Tokenize: dispatch on the mode, and the prologue of the two
\* implementations.
\* ------------------------------------------------------------------------
Tokenize ==
  /\ pc = "call"
  /\ IF config_.end_to_end
     THEN \* TokenizeTextImpl up to the outer loop
          /\ pc' = IF Len(input) = 0 THEN "done" ELSE "outer"
          /\ original_num_tokens' = GetCurrentOutputSize(Out)
          /\ word_first_token' = GetCurrentOutputSize(Out)
          /\ UNCHANGED << outputs, cur_offset_in_input_word, token_pos, unknown_word >>
     ELSE \* TokenizeSingleWordImpl up to the loop over the bytes
          /\ word_first_token' = GetCurrentOutputSize(Out)
          /\ IF Len(input) = 0
             THEN /\ pc' = "done"
                  /\ UNCHANGED << outputs, cur_offset_in_input_word, token_pos, unknown_word,
                                  original_num_tokens >>
             ELSE IF WordTooLong(Len(input))
             THEN /\ pc' = "done"
                  /\ original_num_tokens' = GetCurrentOutputSize(Out) + 1
                  /\ SetOut(ResetOutputAppendUnknownToken(Out, Len(input),
                                                          GetCurrentOutputSize(Out)))
             ELSE /\ pc' = "word_loop"
                  /\ original_num_tokens' = GetCurrentOutputSize(Out)
                  /\ UNCHANGED << outputs, cur_offset_in_input_word, token_pos, unknown_word >>
  /\ UNCHANGED << call, detok, scanner, cur_node, input_word_offset_in_text,
                  num_failure_transitions, last_outer_pos >>

\* The state after HandleTheRemainingStringOnTriePath returns to its caller:
\* TokenizeSingleWordImpl returns; TokenizeTextImpl leaves the outer loop at
\* the end of the text, and otherwise skips the whitespace it stopped at and
\* continues with the next word.
ReturnFromTrailing ==
  IF ~config_.end_to_end \/ cur_pos >= Len(input)
  THEN pc' = "done" /\ cur_pos' = cur_pos
  ELSE /\ pc' = "outer"
       /\ cur_pos' = IF u_isUWhiteSpace(cur_unicode_char) THEN next_pos ELSE cur_pos

\* A variant that passes the whole input as the word.
TrailingWordSize_WholeInput == Len(input)

\* The size of the input_word passed to HandleTheRemainingStringOnTriePath.
TrailingWordSize == IF config_.end_to_end THEN cur_pos - input_word_offset_in_text
                    ELSE Len(input)

\* ------------------------------------------------------------------------
\* TokenizeSingleWordImpl: the loop over the bytes of the word.
\* ------------------------------------------------------------------------
\* The trie consumes the next byte, or all bytes are consumed.
SingleWordStep ==
  /\ pc = "word_loop"
  /\ IF cur_pos >= Len(input)
     THEN pc' = "trailing" /\ UNCHANGED << cur_pos, cur_node >>
     ELSE /\ TryTraverseSeveralSteps(cur_node, << input[cur_pos + 1] >>)
          /\ cur_node' = Append(cur_node, input[cur_pos + 1])
          /\ cur_pos' = cur_pos + 1
          /\ pc' = "word_loop"
  /\ UNCHANGED << call, detok, outputs, next_pos, cur_offset_in_input_word, token_pos, unknown_word,
                  word_byte_length_so_far, input_word_offset_in_text,
                  original_num_tokens, prev_unicode_char, cur_unicode_char,
                  num_failure_transitions, word_first_token, last_outer_pos >>

\* The trie cannot consume the byte: a failure transition, or the whole word
\* becomes the unknown token.
SingleWordFailure ==
  /\ pc = "word_loop"
  /\ cur_pos < Len(input)
  /\ ~TryTraverseSeveralSteps(cur_node, << input[cur_pos + 1] >>)
  /\ LET r == TryFollowFailureLinkAndCollectTokens(Out, cur_node)
     IN  IF r.ok
         THEN /\ SetOut(r.o)
              /\ cur_node' = r.node
              /\ CountFailureTransition
              /\ pc' = "word_loop"
              /\ UNCHANGED original_num_tokens
         ELSE /\ SetOut(ResetOutputAppendUnknownToken(Out, Len(input), original_num_tokens))
              /\ original_num_tokens' = original_num_tokens + 1
              /\ pc' = "done"
              /\ UNCHANGED << cur_node, num_failure_transitions >>
  /\ UNCHANGED << call, detok, scanner, input_word_offset_in_text, word_first_token,
                  last_outer_pos >>

\* ------------------------------------------------------------------------
\* HandleTheRemainingStringOnTriePath.
\* ------------------------------------------------------------------------
\* The entry: the empty word, the word that is the suffix indicator, or on
\* to the loop over the failure links.
HandleTheRemainingStringOnTriePath ==
  /\ pc = "trailing"
  /\ IF cur_node = kRootNodeId
     THEN /\ ReturnFromTrailing
          /\ UNCHANGED << outputs, cur_offset_in_input_word, token_pos, unknown_word, original_num_tokens >>
     ELSE LET r == TryHandleTheInputWordBeingSuffixIndicatorItself(
                     Out, cur_node, TrailingWordSize, original_num_tokens)
          IN  IF r.handled
              THEN /\ SetOut(r.o)
                   /\ original_num_tokens' = GetCurrentOutputSize(r.o)
                   /\ ReturnFromTrailing
              ELSE /\ pc' = "trailing_loop"
                   /\ UNCHANGED << outputs, cur_offset_in_input_word, token_pos, unknown_word,
                                   original_num_tokens, cur_pos >>
  /\ UNCHANGED << call, detok, next_pos, cur_node, word_byte_length_so_far,
                  input_word_offset_in_text, prev_unicode_char, cur_unicode_char,
                  num_failure_transitions, word_first_token, last_outer_pos >>

\* One evaluation of the loop: arrived, or one more failure transition, or
\* the word becomes the unknown token.
TrailingLoop ==
  /\ pc = "trailing_loop"
  /\ IF cur_node = trie_suffix_root
          \/ cur_node = trie_punct_failure_link_node
     THEN /\ original_num_tokens' = GetCurrentOutputSize(Out)
          /\ ReturnFromTrailing
          /\ UNCHANGED << outputs, cur_offset_in_input_word, token_pos, unknown_word, cur_node,
                          num_failure_transitions >>
     ELSE LET r == TryFollowFailureLinkAndCollectTokens(Out, cur_node)
          IN  IF r.ok
              THEN /\ SetOut(r.o)
                   /\ cur_node' = r.node
                   /\ CountFailureTransition
                   /\ pc' = "trailing_loop"
                   /\ UNCHANGED << original_num_tokens, cur_pos >>
              ELSE /\ SetOut(ResetOutputAppendUnknownToken(Out, TrailingWordSize,
                                                           original_num_tokens))
                   /\ original_num_tokens' = original_num_tokens + 1
                   /\ ReturnFromTrailing
                   /\ UNCHANGED << cur_node, num_failure_transitions >>
  /\ UNCHANGED << call, detok, next_pos, word_byte_length_so_far, input_word_offset_in_text,
                  prev_unicode_char, cur_unicode_char, word_first_token, last_outer_pos >>

\* ------------------------------------------------------------------------
\* TokenizeTextImpl.
\* ------------------------------------------------------------------------
\* The head of the outer loop: start the next word, or leave at the end.
TextOuterLoop ==
  /\ pc = "outer"
  /\ IF cur_pos < Len(input)
     THEN /\ cur_offset_in_input_word' = 0
          /\ cur_node' = kRootNodeId
          /\ word_byte_length_so_far' = 0
          /\ input_word_offset_in_text' = cur_pos
          /\ word_first_token' = GetCurrentOutputSize(Out)
          /\ last_outer_pos' = cur_pos
          /\ unknown_word' = FALSE
          /\ pc' = "inner"
     ELSE /\ pc' = "done"
          /\ UNCHANGED << cur_offset_in_input_word, cur_node, word_byte_length_so_far,
                          input_word_offset_in_text, word_first_token, last_outer_pos,
                          unknown_word >>
  /\ UNCHANGED << call, detok, outputs, token_pos, cur_pos, next_pos, original_num_tokens,
                  prev_unicode_char, cur_unicode_char, num_failure_transitions >>

\* The head of the matching loop: decode the next code point and test the
\* length limit.
TextInnerLoop ==
  /\ pc = "inner"
  /\ IF cur_pos < Len(input)
     THEN LET d == U8_NEXT(input, cur_pos, Len(input))
          IN  /\ prev_unicode_char' = cur_unicode_char
              /\ cur_unicode_char' = d.c
              /\ next_pos' = d.next
              /\ pc' = IF WordTooLong(word_byte_length_so_far + d.next - cur_pos)
                       THEN "outside" ELSE "match"
     ELSE /\ pc' = "outside"
          /\ UNCHANGED << prev_unicode_char, cur_unicode_char, next_pos >>
  /\ UNCHANGED << call, detok, outputs, token_pos, unknown_word, cur_pos, cur_node, cur_offset_in_input_word,
                  word_byte_length_so_far, input_word_offset_in_text, original_num_tokens,
                  num_failure_transitions, word_first_token, last_outer_pos >>

\* The trie consumes the whole code point.
TextMatch ==
  /\ pc = "match"
  /\ TryTraverseSeveralSteps(cur_node, Slice(input, cur_pos, next_pos))
  /\ cur_node' = cur_node \o Slice(input, cur_pos, next_pos)
  /\ word_byte_length_so_far' = word_byte_length_so_far + next_pos - cur_pos
  /\ cur_pos' = next_pos
  /\ pc' = "inner"
  /\ UNCHANGED << call, detok, outputs, token_pos, unknown_word, next_pos, cur_offset_in_input_word,
                  input_word_offset_in_text, original_num_tokens, prev_unicode_char,
                  cur_unicode_char, num_failure_transitions, word_first_token,
                  last_outer_pos >>

\* The trie cannot consume the code point: a failure transition, or out of
\* the matching loop.
TextFailure ==
  /\ pc = "match"
  /\ ~TryTraverseSeveralSteps(cur_node, Slice(input, cur_pos, next_pos))
  /\ LET r == TryFollowFailureLinkAndCollectTokens(Out, cur_node)
     IN  IF r.ok
         THEN /\ SetOut(r.o)
              /\ cur_node' = r.node
              /\ CountFailureTransition
              /\ pc' = "match"
         ELSE /\ pc' = "outside"
              /\ UNCHANGED << outputs, cur_offset_in_input_word, token_pos, unknown_word, cur_node,
                              num_failure_transitions >>
  /\ UNCHANGED << call, detok, scanner, input_word_offset_in_text, original_num_tokens,
                  word_first_token, last_outer_pos >>

\* A variant of the boundary test that knows whitespace only.
IsWordBoundary_WhiteSpaceOnly == u_isUWhiteSpace(cur_unicode_char)

\* The code point the matching loop stopped at is a word boundary.
IsWordBoundary ==
  \/ u_isUWhiteSpace(cur_unicode_char)
  \/ IsPunctuationOrChineseChar(cur_unicode_char)
  \/ (cur_pos # 0 /\ IsPunctuationOrChineseChar(prev_unicode_char))

\* After the matching loop, at the end of the text or at a word boundary:
\* collect the tokens that remain on the trie path.
TextWordBoundary ==
  /\ pc = "outside"
  /\ cur_pos >= Len(input) \/ IsWordBoundary
  /\ pc' = "trailing"
  /\ UNCHANGED << call, detok, outputs, token_pos, unknown_word, scanner, cur_node, cur_offset_in_input_word,
                  input_word_offset_in_text, original_num_tokens,
                  num_failure_transitions, word_first_token, last_outer_pos >>

\* After the matching loop, in the middle of a word: the word up to the
\* next boundary becomes the unknown token.
TextUnknownWord ==
  /\ pc = "outside"
  /\ cur_pos < Len(input)
  /\ ~IsWordBoundary
  /\ LET skip == SkipTheRemainingOfWordAndTrailingWhiteSpaces(input, next_pos)
     IN  /\ cur_pos' = skip.cur_pos
         /\ SetOut(ResetOutputAppendUnknownToken(
                     Out, skip.end_of_word - input_word_offset_in_text,
                     original_num_tokens))
  /\ original_num_tokens' = original_num_tokens + 1
  /\ pc' = "outer"
  /\ UNCHANGED << call, detok, next_pos, word_byte_length_so_far, prev_unicode_char,
                  cur_unicode_char, cur_node, input_word_offset_in_text,
                  num_failure_transitions, word_first_token, last_outer_pos >>

\* ------------------------------------------------------------------------
\* Calls of the detokenize functions, after Tokenize has returned.
\* ------------------------------------------------------------------------
tokenizer == << outputs, pc, cur_node, cur_offset_in_input_word, input_word_offset_in_text,
                original_num_tokens, token_pos, unknown_word, num_failure_transitions,
                word_first_token, last_outer_pos >>

\* The caller passes ids to DetokenizeToTokens.
CallDetokenizeToTokens(ids) ==
  /\ pc = "done"
  /\ detok_tokens = NoResult
  /\ detok_input' = ids
  /\ detok_tokens' = DetokenizeToTokens(ids)
  /\ UNCHANGED << call, scanner, tokenizer, detok_text >>

\* The caller passes the same ids to Detokenize.
CallDetokenize ==
  /\ pc = "done"
  /\ detok_tokens # NoResult
  /\ detok_text = NoResult
  /\ detok_text' = Detokenize(detok_input)
  /\ UNCHANGED << call, scanner, tokenizer, detok_input, detok_tokens >>

\* What the call has appended to a container the caller passed.
Emitted(container, before) == SubSeq(container, Len(before) + 1, Len(container))

\* The ids a call has produced go back into the detokenize functions.
DetokenizeOutput == CallDetokenizeToTokens(Emitted(output_ids, prior.ids))

\* ------------------------------------------------------------------------
\* Specification.
\* ------------------------------------------------------------------------
Next ==
  \/ Tokenize
  \/ SingleWordStep
  \/ SingleWordFailure
  \/ HandleTheRemainingStringOnTriePath
  \/ TrailingLoop
  \/ TextOuterLoop
  \/ TextInnerLoop
  \/ TextMatch
  \/ TextFailure
  \/ TextWordBoundary
  \/ TextUnknownWord
  \/ DetokenizeOutput
  \/ CallDetokenize

Spec == Init /\ [][Next]_vars

SpecMixed == InitMixed /\ [][Next]_vars

\* The detokenize functions called with id lists of the caller's own.
DetokenizeIds ==
  /\ detok_tokens = NoResult
  /\ \E ids \in IdLists : CallDetokenizeToTokens(ids)

NextDetok ==
  \/ Tokenize
  \/ DetokenizeIds
  \/ CallDetokenize

SpecDetok == InitDetok /\ [][NextDetok]_vars

\* Texts for the model with the empty suffix indicator.
InitNoIndicator ==
  \E n \in NoIndicatorConfigNames, i \in SeqsUpTo(TextBytes, MaxTextLen) :
    InitOf([cfg |-> n, input |-> i, word_offset |-> 0, overload |-> 1, prior |-> NoPrior])

\* The steps of TokenizeTextImpl.
NextText ==
  \/ Tokenize
  \/ HandleTheRemainingStringOnTriePath
  \/ TrailingLoop
  \/ TextOuterLoop
  \/ TextInnerLoop
  \/ TextMatch
  \/ TextFailure
  \/ TextWordBoundary
  \/ TextUnknownWord

SpecNoIndicator == InitNoIndicator /\ [][NextText]_vars

\* Words for the model with the failure table as printed.
InitTable ==
  \E n \in TableConfigNames, i \in SeqsUpTo(WordBytes, MaxWordLen) :
    InitOf([cfg |-> n, input |-> i, word_offset |-> 0, overload |-> 1, prior |-> NoPrior])

\* The next step of TokenizeSingleWordImpl reads the trie or the failure
\* table at the cursor, and the cursor is kNullNode: TryTraverseOneStep in
\* the loop over the bytes, TryGetData on the trailing path.
ReadsTrieAtNullNode ==
  /\ cur_node = kNullNode
  /\ \/ pc = "word_loop" /\ cur_pos < Len(input)
     \/ /\ pc = "trailing_loop"
        /\ cur_node # trie_suffix_root
        /\ cur_node # trie_punct_failure_link_node

\* A read of the trie arrays at kNullNode is outside the arrays: what the
\* call does from there on is not defined.
UndefinedTrieRead ==
  /\ ReadsTrieAtNullNode
  /\ pc' = "undefined"
  /\ UNCHANGED << call, detok, scanner, outputs, cur_node, cur_offset_in_input_word,
                  input_word_offset_in_text, original_num_tokens, token_pos, unknown_word,
                  num_failure_transitions, word_first_token, last_outer_pos >>

\* The steps of TokenizeSingleWordImpl.
NextTable ==
  \/ Tokenize
  \/ ~ReadsTrieAtNullNode /\ SingleWordStep
  \/ ~ReadsTrieAtNullNode /\ SingleWordFailure
  \/ HandleTheRemainingStringOnTriePath
  \/ ~ReadsTrieAtNullNode /\ TrailingLoop
  \/ UndefinedTrieRead

SpecTable == InitTable /\ [][NextTable]_vars

\* The steps of a Tokenize call.
TokenizeSteps ==
  \/ Tokenize
  \/ SingleWordStep
  \/ SingleWordFailure
  \/ HandleTheRemainingStringOnTriePath
  \/ TrailingLoop
  \/ TextOuterLoop
  \/ TextInnerLoop
  \/ TextMatch
  \/ TextFailure
  \/ TextWordBoundary
  \/ TextUnknownWord

\* The id lists another thread detokenizes while Tokenize runs.
ParallelIdLists == { << 0, 2 >>, << 2, 0, 1 >> }

\* A variant in which the detokenize functions append to the id vector of
\* the running Tokenize call.
DetokenizeWrites_IntoOutput ==
  /\ output_ids' = Append(output_ids, 0)
  /\ UNCHANGED << call, scanner, output_pieces, output_start_offsets, output_end_offsets,
                  pc, cur_node, cur_offset_in_input_word, input_word_offset_in_text,
                  original_num_tokens, token_pos, unknown_word, num_failure_transitions,
                  word_first_token, last_outer_pos >>

\* What the detokenize functions write besides their return value: they
\* are const, collect the words in vectors of their own and only read the
\* model.
DetokenizeWrites == UNCHANGED << call, scanner, tokenizer >>

\* DetokenizeToTokens called from another thread, at any point of Tokenize.
ParallelDetokenizeToTokens ==
  \E ids \in ParallelIdLists :
    /\ detok_tokens = NoResult
    /\ detok_input' = ids
    /\ detok_tokens' = DetokenizeToTokens(ids)
    /\ detok_text' = detok_text
    /\ DetokenizeWrites

\* Detokenize called from another thread, at any point of Tokenize.
ParallelDetokenize ==
  /\ detok_tokens # NoResult
  /\ detok_text = NoResult
  /\ detok_text' = Detokenize(detok_input)
  /\ UNCHANGED << detok_input, detok_tokens >>
  /\ DetokenizeWrites

\* The plain calls of Tokenize that run next to the detokenize functions.
SharedCalls ==
  UNION { { [cfg |-> n, input |-> i, word_offset |-> 0, overload |-> 1, prior |-> NoPrior] :
              i \in ShortInputs[n] } : n \in ConfigNames }

InitShared == \E c \in SharedCalls : InitOf(c)

NextShared ==
  \/ TokenizeSteps
  \/ ParallelDetokenizeToTokens
  \/ ParallelDetokenize

\* One Tokenize call and detokenize calls of another thread on one model.
SpecShared == InitShared /\ [][NextShared]_vars

\* ------------------------------------------------------------------------
\* Reference definitions the properties are stated against.
\* ------------------------------------------------------------------------
EmittedPieces == Emitted(output_pieces, prior.pieces)

EmittedIds == Emitted(output_ids, prior.ids)

EmittedStarts == Emitted(output_start_offsets, prior.starts)

EmittedEnds == Emitted(output_end_offsets, prior.ends)

\* A full-output call has returned.
Returned == pc = "done" /\ overload = 1

\* The tokens of the call as (id, start, end) triples; defined when the ids
\* and offsets appended have the same length.
EmittedTokens ==
  [i \in 1..Len(EmittedIds) |->
     [id |-> EmittedIds[i], start |-> EmittedStarts[i], end |-> EmittedEnds[i]]]

Shift(toks, by) ==
  [i \in 1..Len(toks) |->
     [id |-> toks[i].id, start |-> toks[i].start + by, end |-> toks[i].end + by]]

\* The words of a text by the boundary rules: whitespace separates words and
\* is dropped, a punctuation/CJK code point is a word of its own.  The
\* result is the sequence of [start, end) spans; open is the start of the
\* word being scanned, or -1.
RECURSIVE SplitWords(_, _, _)
SplitWords(text, p, open) ==
  LET close == IF open >= 0 THEN << [start |-> open, end |-> p] >> ELSE << >>
  IN  IF p >= Len(text) THEN close
      ELSE LET d == U8_NEXT(text, p, Len(text))
           IN  IF u_isUWhiteSpace(d.c) THEN close \o SplitWords(text, d.next, -1)
               ELSE IF IsPunctuationOrChineseChar(d.c)
               THEN close \o << [start |-> p, end |-> d.next] >>
                      \o SplitWords(text, d.next, -1)
               ELSE SplitWords(text, d.next, IF open >= 0 THEN open ELSE p)

\* Greedy WordPiece applied to each word of the text independently.
RECURSIVE TokensOfWords(_, _, _)
TokensOfWords(m, text, words) ==
  IF words = << >> THEN << >>
  ELSE Shift(MaxMatch(m, Slice(text, Head(words).start, Head(words).end), TRUE),
             Head(words).start)
         \o TokensOfWords(m, text, Tail(words))

SplitAndMaxMatch(m, text) == TokensOfWords(m, text, SplitWords(text, 0, -1))

\* The surface string of a vocabulary id.
PieceOf(m, id) == m.vocab[id + 1]

\* The text contains the byte string sub.
Contains(text, sub) ==
  \E k \in 0..(Len(text) - Len(sub)) : Slice(text, k, k + Len(sub)) = sub

\* ------------------------------------------------------------------------
\* Properties.
\* ------------------------------------------------------------------------
\* The single-word call the claim C1 is about: a built model, a non-empty
\* word within the length limit.
C1_Case ==
  /\ Returned
  /\ cfg \in BuiltConfigs
  /\ ~config_.end_to_end
  /\ Len(input) > 0
  /\ Len(input) <= config_.max_bytes_per_token

\* C1 as stated: for every non-empty word within the length limit,
\* tokenize_single_word emits the tokens of greedy longest-match-first
\* WordPiece in which the first token is the longest NON-SUFFIX vocabulary
\* entry that prefixes the word, and the single unknown token exactly when
\* that procedure cannot segment the word.
C1_AsStated ==
  C1_Case => EmittedTokens = Shift(MaxMatch(config_, input, FALSE), word_offset)

\* C1 (amended): for every non-empty word within the length limit,
\* tokenize_single_word emits the tokens of greedy longest-match-first
\* WordPiece in which the first token is the longest vocabulary entry of any
\* kind (an entry that begins with the suffix indicator included, matched
\* literally) that prefixes the word, and later tokens are the longest
\* suffix entries that prefix the remainder; it emits the single unknown
\* token exactly when that procedure cannot segment the word.
C1_GreedyLongestMatch ==
  C1_Case => EmittedTokens = Shift(MaxMatch(config_, input, TRUE), word_offset)

\* The word "##bz" is segmented into the entries ##b (a suffix entry matched
\* literally at offset 0) and ##z, after one failure transition in the loop
\* and one on the trailing path.
C1_Witness ==
  /\ C1_Case
  /\ input = << ch_hash, ch_hash, ch_b, ch_z >>
  /\ output_ids = << 2, 4 >>
  /\ output_end_offsets = << 3, 4 >>
  /\ num_failure_transitions = 2

\* The end-to-end call with the example model that C2 is about.
C2_Case == Returned /\ cfg = "text"

\* The call returned the pieces, ids and offsets of splitting the text into
\* words and tokenizing each word on its own.
C2_MatchesSplit ==
  LET want == SplitAndMaxMatch(config_, input)
  IN  /\ EmittedTokens = want
      /\ EmittedPieces = [i \in 1..Len(want) |-> PieceOf(config_, want[i].id)]

\* C2 as stated: with the example model in end-to-end mode, for EVERY text
\* tokenize_text returns the pieces, ids and offsets obtained by splitting
\* the text at whitespace and punctuation/CJK code points and tokenizing
\* each word independently.
C2_AsStated == C2_Case => C2_MatchesSplit

\* C2 (amended): with the example model in end-to-end mode, for every text
\* in which the suffix indicator "##" does not occur, tokenize_text returns
\* the pieces, ids and offsets obtained by splitting the text at whitespace
\* and punctuation/CJK code points and tokenizing each word independently;
\* in particular "abcz" gives [a, ##bc, ##z] with offsets (0,1),(1,3),(3,4),
\* "ab cd" gives [a, ##b, [UNK]] with offsets (0,1),(1,2),(3,5), and "a!b"
\* gives [a, [UNK], [UNK]] with offsets (0,1),(1,2),(2,3).
C2_SplitThenTokenize ==
  C2_Case =>
    /\ ~Contains(input, config_.suffix_indicator) => C2_MatchesSplit
    /\ input = << ch_a, ch_b, ch_c, ch_z >> =>
         /\ EmittedIds = << 0, 3, 4 >>
         /\ EmittedPieces = << << ch_a >>, << ch_hash, ch_hash, ch_b, ch_c >>,
                               << ch_hash, ch_hash, ch_z >> >>
         /\ EmittedStarts = << 0, 1, 3 >>
         /\ EmittedEnds = << 1, 3, 4 >>
    /\ input = << ch_a, ch_b, ch_space, ch_c, ch_d >> =>
         /\ EmittedIds = << 0, 2, 5 >>
         /\ EmittedPieces = << << ch_a >>, << ch_hash, ch_hash, ch_b >>, str_unk >>
         /\ EmittedStarts = << 0, 1, 3 >>
         /\ EmittedEnds = << 1, 2, 5 >>
    /\ input = << ch_a, ch_bang, ch_b >> =>
         /\ EmittedIds = << 0, 5, 5 >>
         /\ EmittedPieces = << << ch_a >>, str_unk, str_unk >>
         /\ EmittedStarts = << 0, 1, 2 >>
         /\ EmittedEnds = << 1, 2, 3 >>

\* The text "ab cd" has been tokenized: two words, the second one unknown.
C2_Witness ==
  /\ C2_Case
  /\ input = << ch_a, ch_b, ch_space, ch_c, ch_d >>
  /\ output_ids = << 0, 2, 5 >>
  /\ output_start_offsets = << 0, 1, 3 >>

\* A word of the call has just been reset to the unknown token, and the
\* scanner has moved on to what follows the word.
C3_Case == unknown_word /\ pc \in {"outer", "done"}

\* In a text, [S, E) is a whole word the scanner has just left: it is not
\* empty, holds no whitespace, ends at the end of the text, before a
\* whitespace or punctuation/CJK code point or after a punctuation/CJK code
\* point, and the scanner stands at E or behind the one whitespace code
\* point at E.
C3_WholeWord(S, E) ==
  /\ S < E
  /\ E <= Len(input)
  /\ LET cps == CodePoints(Slice(input, S, E))
     IN  /\ \A k \in 1..Len(cps) : ~u_isUWhiteSpace(cps[k])
         /\ \/ E = Len(input)
            \/ IsPunctuationOrChineseChar(cps[Len(cps)])
            \/ LET d == U8_NEXT(input, E, Len(input))
               IN  u_isUWhiteSpace(d.c) \/ IsPunctuationOrChineseChar(d.c)
  /\ \/ E = cur_pos
     \/ /\ E < Len(input)
        /\ LET d == U8_NEXT(input, E, Len(input))
           IN  u_isUWhiteSpace(d.c) /\ d.next = cur_pos

C4_OuterLoopAdvances == pc = "outer" => cur_pos > last_outer_pos

\* C5: the number of failure transitions performed during one call is at
\* most the byte length of the input, whatever failure table the model
\* carries.
C5_FailureTransitionsBounded == num_failure_transitions <= Len(input)

\* The indexes of the tokens this call has appended to the offsets.
EmittedIndexes == (Len(prior.ends) + 1)..Len(output_end_offsets)

\* The byte length of the span of token i.
SpanLength(i) == output_end_offsets[i] - output_start_offsets[i]

MaxSpan == config_.max_bytes_per_token + Len(config_.suffix_indicator)

\* A call that reports offsets has returned from a model the builder made.
C6_Case == pc = "done" /\ kGetOffsets /\ cfg \in BuiltConfigs

\* C6 as stated: in both modes no emitted token, unknown tokens included,
\* has end - start greater than max_bytes_per_token + |suffix_indicator|.
C6_AsStated == C6_Case => \A i \in EmittedIndexes : SpanLength(i) <= MaxSpan

\* C6 (amended): in both modes no emitted token other than the unknown
\* token has end - start greater than max_bytes_per_token +
\* |suffix_indicator|; an unknown token spans its whole word, however long.
C6_LengthBound ==
  C6_Case =>
    \A i \in EmittedIndexes : output_ids[i] # unk_token_id => SpanLength(i) <= MaxSpan

\* With max_bytes_per_token = 2 the word "ab" is within the limit and gives
\* a and ##b, one byte each.
C6_Witness ==
  /\ C6_Case
  /\ cfg = "word_max2"
  /\ input = << ch_a, ch_b >>
  /\ output_ids = << 0, 2 >>
  /\ output_start_offsets = << 0, 1 >>
  /\ output_end_offsets = << 1, 2 >>

\* The word the trailing path is entered for.
TrailingWord == Slice(input, WordStart, WordStart + TrailingWordSize)

\* The ids of a list of encoded tokens.
IdsOf(toks) == [i \in 1..Len(toks) |-> GetTokenId(toks[i])]

\* C7: when the trailing path is entered on trie_suffix_root and no token
\* has been emitted for the word, the word is the suffix indicator and: if
\* the precomputed result is the single unknown token, one unknown token
\* spanning the word is appended; otherwise the precomputed tokens are
\* appended in order, with their vocabulary strings as pieces and with
\* consecutive spans that cover the word.  When tokens have been emitted for
\* the word, arriving at trie_suffix_root appends nothing.
C7_SuffixIndicatorWord ==
  [][ (pc \in {"trailing", "trailing_loop"} /\ cur_node = trie_suffix_root) =>
        IF GetCurrentOutputSize(Out) = word_first_token
        THEN LET pre == precomputed_result_for_suffix_indicator
                 first == input_word_offset_in_text
             IN  /\ pc = "trailing"
                 /\ TrailingWord = config_.suffix_indicator
                 /\ IF Len(pre) = 1 /\ GetTokenId(pre[1]) = unk_token_id
                    THEN /\ output_ids' = Append(output_ids, unk_token_id)
                         /\ kGetPieces =>
                              output_pieces' = Append(output_pieces, config_.unk_token)
                         /\ kGetOffsets =>
                              /\ output_start_offsets' = Append(output_start_offsets, first)
                              /\ output_end_offsets' =
                                   Append(output_end_offsets,
                                          first + Len(config_.suffix_indicator))
                    ELSE /\ output_ids' = output_ids \o IdsOf(pre)
                         /\ kGetPieces =>
                              output_pieces' =
                                output_pieces
                                  \o [i \in 1..Len(pre) |-> PieceOf(config_, GetTokenId(pre[i]))]
                         /\ kGetOffsets =>
                              /\ Len(output_start_offsets') = Len(output_start_offsets) + Len(pre)
                              /\ Len(output_end_offsets') = Len(output_end_offsets) + Len(pre)
                              /\ output_start_offsets'[Len(output_start_offsets) + 1] = first
                              /\ output_end_offsets'[Len(output_end_offsets')]
                                   = first + Len(config_.suffix_indicator)
                              /\ \A i \in (Len(output_start_offsets) + 2)
                                            ..Len(output_start_offsets') :
                                   output_start_offsets'[i] = output_end_offsets'[i - 1]
        ELSE UNCHANGED outputs ]_vars

\* With the vocabulary {a, #, ###, ##b} the word "##" has been tokenized to
\* the precomputed tokens # and ###.
C7_Witness ==
  /\ pc = "done"
  /\ cfg = "word_hash"
  /\ input = str_si
  /\ overload = 1
  /\ output_ids = << 1, 2 >>
  /\ output_pieces = << << ch_hash >>, << ch_hash, ch_hash, ch_hash >> >>
  /\ output_start_offsets = << 0, 1 >>
  /\ output_end_offsets = << 1, 2 >>

\* The bytes of the input that token i reports as its span, when the
\* offsets are positions in the input shifted by shift.
Surface(i, shift) ==
  Slice(input, output_start_offsets[i] - shift, output_end_offsets[i] - shift)

\* Token i was appended at the byte position the scanner had in the input,
\* plus shift; and unless it is the unknown token, its piece is the bytes of
\* the input at that position, with the suffix indicator in front when the
\* token continues a word.
C8_OffsetsAre(shift) ==
  kGetOffsets =>
    \A i \in EmittedIndexes :
      /\ output_start_offsets[i] = token_pos[i].start + shift
      /\ output_end_offsets[i] = token_pos[i].end + shift
      /\ (kGetPieces /\ output_ids[i] # unk_token_id) =>
           output_pieces[i]
             \in {Surface(i, shift), config_.suffix_indicator \o Surface(i, shift)}

\* C8 as stated: in single-word and in end-to-end mode every reported start
\* and end offset is the token's byte position inside the input passed to
\* tokenize plus the word_offset argument of the call.
C8_AsStated == C8_OffsetsAre(word_offset)

\* C8 (amended): in single-word mode every reported start and end offset is
\* the token's byte position inside the word plus the word_offset argument;
\* in end-to-end mode the word_offset argument is ignored and every reported
\* offset is the token's byte position inside the text.
C8_OffsetsShifted == C8_OffsetsAre(IF config_.end_to_end THEN 0 ELSE word_offset)

\* The word "abcz" tokenized with a word offset: a, ##bc, ##z at the offsets
\* of the word shifted by the word offset.
C8_Witness ==
  /\ Returned
  /\ cfg = "word"
  /\ input = << ch_a, ch_b, ch_c, ch_z >>
  /\ word_offset = SomeWordOffset
  /\ output_start_offsets = << SomeWordOffset, SomeWordOffset + 1, SomeWordOffset + 3 >>
  /\ output_end_offsets = << SomeWordOffset + 1, SomeWordOffset + 3, SomeWordOffset + 4 >>

\* An end-to-end call that reports offsets has returned.
C9_Case == pc = "done" /\ kGetOffsets /\ config_.end_to_end

\* The code points inside the span of token i of an end-to-end call.
SpanCodePoints(i) == CodePoints(Surface(i, 0))

NoWhiteSpaceIn(cps) == \A k \in 1..Len(cps) : ~u_isUWhiteSpace(cps[k])

HasPunctuation(cps) == \E k \in 1..Len(cps) : IsPunctuationOrChineseChar(cps[k])

\* C9 as stated: in end-to-end mode no emitted token span contains a
\* whitespace code point, and a span that contains a punctuation/CJK code
\* point contains no other code point.
C9_AsStated ==
  C9_Case =>
    \A i \in EmittedIndexes :
      /\ NoWhiteSpaceIn(SpanCodePoints(i))
      /\ HasPunctuation(SpanCodePoints(i)) => Len(SpanCodePoints(i)) = 1

\* C9 (amended): in end-to-end mode no emitted token span contains a
\* whitespace code point, and a span that contains a punctuation/CJK code
\* point either contains no other code point or begins with the suffix
\* indicator: the trie holds the path of the suffix indicator from the
\* root, so a word that begins with "##" is matched through it although
\* '#' is punctuation.
C9_Boundaries ==
  C9_Case =>
    \A i \in EmittedIndexes :
      /\ NoWhiteSpaceIn(SpanCodePoints(i))
      /\ HasPunctuation(SpanCodePoints(i)) =>
           \/ Len(SpanCodePoints(i)) = 1
           \/ IsPrefix(config_.suffix_indicator, Surface(i, 0))

\* The text "a!b" has been split at the punctuation: three tokens, the
\* second one the span of "!" alone.
C9_Witness ==
  /\ C9_Case
  /\ cfg = "text"
  /\ input = << ch_a, ch_bang, ch_b >>
  /\ prior = NoPrior
  /\ output_start_offsets = << 0, 1, 2 >>
  /\ output_end_offsets = << 1, 2, 3 >>

\* The four containers have the same length.
SameLength ==
  /\ Len(output_pieces) = Len(output_ids)
  /\ Len(output_ids) = Len(output_start_offsets)
  /\ Len(output_start_offsets) = Len(output_end_offsets)

\* C10 as stated: after any tokenize call that requests pieces, ids, start
\* offsets and end offsets, the four containers have the same length.
C10_AsStated == Returned => SameLength

\* C10 (amended): after a tokenize call that requests pieces, ids, start
\* offsets and end offsets on containers that had the same length before
\* the call, the four containers have the same length; the call appends to
\* what the caller passed, so containers of different lengths stay
\* different unless a word is reset to the unknown token.
C10_SizeConsistency ==
  (Returned /\ Len(prior.pieces) = Len(prior.ids) /\ Len(prior.ids) = Len(prior.starts)
     /\ Len(prior.starts) = Len(prior.ends))
    => SameLength

\* A call on containers that held one token each has appended the three
\* tokens of "abcz" to each of them.
C10_Witness ==
  /\ Returned
  /\ prior = EqualPrior
  /\ input = << ch_a, ch_b, ch_c, ch_z >>
  /\ Len(output_pieces) = 4
  /\ Len(output_ids) = 4
  /\ Len(output_start_offsets) = 4
  /\ Len(output_end_offsets) = 4

\* The entries of the container as the caller passed it are still at the
\* front of the container.
Kept(container, before) ==
  Len(before) <= Len(container) /\ SubSeq(container, 1, Len(before)) = before

\* Every container still starts with what the caller passed.
AllKept ==
  /\ Kept(output_pieces, prior.pieces)
  /\ Kept(output_ids, prior.ids)
  /\ Kept(output_start_offsets, prior.starts)
  /\ Kept(output_end_offsets, prior.ends)

\* The caller passed containers of one length.
PriorSameLength ==
  /\ Len(prior.pieces) = Len(prior.ids)
  /\ Len(prior.ids) = Len(prior.starts)
  /\ Len(prior.starts) = Len(prior.ends)

\* C11 as stated: Tokenize only appends; every entry that was in a
\* container before the call is still there, at the same index and with the
\* same value, at every point of the call and after it, also when a word is
\* rolled back to the unknown token and whatever the caller put into the
\* containers.
C11_AsStated == AllKept

\* C11 (amended): when the containers the caller passes have the same
\* length, Tokenize only appends to them: every entry that was in a
\* container before the call is still there, at the same index and with the
\* same value, also when the call rolls back a word to the unknown token.
\* (The rollback measures one container and resizes all of them to that
\* size, so entries of a longer container are cut off or overwritten.)
C11_OnlyAppends == PriorSameLength => AllKept

\* A call on containers that held one token each has rolled the word "abab"
\* back to the unknown token after emitting two tokens for it, and the
\* earlier token is still the first entry.
C11_Witness ==
  /\ Returned
  /\ cfg = "text"
  /\ prior = EqualPrior
  /\ input = << ch_a, ch_b, ch_a, ch_b, ch_bang >>
  /\ output_ids = << 7, unk_token_id, unk_token_id >>
  /\ output_pieces = << << ch_z >>, str_unk, str_unk >>
  /\ output_start_offsets = << 40, 0, 4 >>
  /\ num_failure_transitions >= 2

\* C12: the offsets produced by one call satisfy start <= end for every
\* token and start(i) <= start(i+1) for every consecutive pair, at every
\* point of the call: inside a word, across word boundaries and after a
\* rollback to the unknown token.
C12_OffsetMonotonicity ==
  (kGetOffsets /\ cfg \in BuiltConfigs) =>
    /\ Len(output_start_offsets) = Len(output_end_offsets)
    /\ \A i \in EmittedIndexes : output_start_offsets[i] <= output_end_offsets[i]
    /\ \A i \in EmittedIndexes :
         i + 1 \in EmittedIndexes => output_start_offsets[i] <= output_start_offsets[i + 1]

\* The text "ab cd" has produced three tokens over two words, the last one
\* by a rollback, with increasing offsets.
C12_Witness ==
  /\ pc = "done"
  /\ cfg = "text"
  /\ overload = 2
  /\ input = << ch_a, ch_b, ch_space, ch_c, ch_d >>
  /\ output_start_offsets = << 0, 1, 3 >>
  /\ output_end_offsets = << 1, 2, 5 >>

\* C13: every end offset produced by a call is at most the length of the
\* input plus the word_offset argument, at every point of the call.
C13_OffsetContainment ==
  (kGetOffsets /\ cfg \in BuiltConfigs) =>
    \A i \in EmittedIndexes : output_end_offsets[i] <= Len(input) + word_offset

\* In the text "a #" the last token ends at the end of the text, and in the
\* single word "abcz" passed with a word offset at the end of the word.
C13_Witness ==
  /\ pc = "done"
  /\ kGetOffsets
  /\ \/ /\ cfg = "text"
        /\ input = << ch_a, ch_space, ch_hash >>
        /\ output_end_offsets = << 1, 3 >>
     \/ /\ cfg = "word"
        /\ word_offset = SomeWordOffset
        /\ input = << ch_a, ch_b, ch_c, ch_z >>
        /\ output_end_offsets[Len(output_end_offsets)] = Len(input) + SomeWordOffset

\* A single non-empty word has been tokenized by a builder-made model
\* without an unknown token, and its ids have gone through
\* DetokenizeToTokens.
C14_Case ==
  /\ cfg \in BuiltConfigs
  /\ ~config_.end_to_end
  /\ Len(input) > 0
  /\ \A k \in 1..Len(EmittedIds) : EmittedIds[k] # unk_token_id
  /\ detok_tokens # NoResult

\* C14: for every single (non-empty) word w whose tokenization contains no
\* unknown token, words that begin with the suffix indicator and the word
\* that is the suffix indicator included, detokenize_to_tokens applied to
\* the ids produced by tokenize(w) returns exactly the one-element list [w].
C14_RoundTrip ==
  C14_Case => detok_tokens = [status |-> "ok", value |-> << input >>]

\* C14 as stated, the empty word included: the ids of every single word
\* tokenized without an unknown token detokenize to the list of that word.
C14_AsStated ==
  ( /\ cfg \in BuiltConfigs
    /\ ~config_.end_to_end
    /\ \A k \in 1..Len(EmittedIds) : EmittedIds[k] # unk_token_id
    /\ detok_tokens # NoResult )
  => detok_tokens = [status |-> "ok", value |-> << input >>]

\* The word "##bz", which begins with the suffix indicator, has made the
\* round trip through the ids of ##b and ##z.
C14_Witness ==
  /\ C14_Case
  /\ cfg = "word"
  /\ input = << ch_hash, ch_hash, ch_b, ch_z >>
  /\ detok_input = << 2, 4 >>
  /\ detok_tokens.value = << input >>

\* The positions of an id list at which a word starts: the first one and
\* every id that is not a suffix.
WordStartsIn(ids) ==
  { k \in 1..Len(ids) : k = 1 \/ ~vocab_is_suffix_array[ids[k]] }

\* The concatenation of the vocabulary strings of ids[from..to].
RECURSIVE ConcatVocab(_, _, _)
ConcatVocab(ids, from, to) ==
  IF from > to THEN << >> ELSE vocab_array[ids[from]] \o ConcatVocab(ids, from + 1, to)

\* The word that starts at position k: up to the position before the next
\* start, with the suffix indicator in front when the id at k is a suffix.
WordFrom(ids, k) ==
  LET later == { j \in WordStartsIn(ids) : j > k }
      last == IF later = { } THEN Len(ids)
              ELSE (CHOOSE j \in later : \A i \in later : j <= i) - 1
  IN  (IF vocab_is_suffix_array[ids[k]] THEN config_.suffix_indicator ELSE << >>)
        \o ConcatVocab(ids, k, last)

\* The words of an id list, in order.
WordsOf(ids) ==
  LET starts == WordStartsIn(ids)
      nth(n) == CHOOSE k \in starts : Cardinality({ j \in starts : j < k }) = n - 1
  IN  [n \in 1..Cardinality(starts) |-> WordFrom(ids, nth(n))]

\* The words joined with one space between neighbours.
RECURSIVE JoinedWithSpace(_)
JoinedWithSpace(words) ==
  IF words = << >> THEN << >>
  ELSE IF Len(words) = 1 THEN words[1]
  ELSE JoinedWithSpace(SubSeq(words, 1, Len(words) - 1)) \o << ch_space >> \o words[Len(words)]

\* DetokenizeToTokens has returned for a list of ids of the vocabulary of a
\* model that supports detokenization.
C15_Case ==
  /\ config_.support_detokenization
  /\ detok_tokens # NoResult
  /\ ValidIds(detok_input)

\* C15: detokenize_to_tokens groups the ids into words in order: a new word
\* starts at the first id and at every id that is not a suffix, each word is
\* the concatenation of the vocabulary strings of its ids, the suffix
\* indicator is prepended only to a word whose first id is a suffix (which
\* can only be the first id of the input), and detokenize joins the words
\* with a single space; with the example vocabulary the ids of a, ##bc, ##z
\* give ["abcz"] and "abcz".
C15_Grouping ==
  C15_Case =>
    /\ detok_tokens = [status |-> "ok", value |-> WordsOf(detok_input)]
    /\ \A k \in WordStartsIn(detok_input) :
         vocab_is_suffix_array[detok_input[k]] => k = 1
    /\ detok_text # NoResult =>
         detok_text = [status |-> "ok", value |-> JoinedWithSpace(WordsOf(detok_input))]
    /\ (cfg = "word" /\ detok_input = << 0, 3, 4 >>) =>
         /\ detok_tokens.value = << << ch_a, ch_b, ch_c, ch_z >> >>
         /\ detok_text # NoResult => detok_text.value = << ch_a, ch_b, ch_c, ch_z >>

\* Both functions have returned for the ids of ##b, a, ##z: the words "##b"
\* and "az", and the text "##b az".
C15_Witness ==
  /\ C15_Case
  /\ cfg = "word"
  /\ detok_input = << 2, 0, 4 >>
  /\ detok_tokens.value = << << ch_hash, ch_hash, ch_b >>, << ch_a, ch_z >> >>
  /\ detok_text # NoResult
  /\ detok_text.value = << ch_hash, ch_hash, ch_b, ch_space, ch_a, ch_z >>

\* C16: when the model has support_detokenization = false,
\* detokenize_to_tokens and detokenize both return a precondition error for
\* every id list, the empty one included, return no tokens and no text, and
\* look up no id: the result is the same for ids outside the vocabulary.
C16_PreconditionError ==
  ~config_.support_detokenization =>
    /\ detok_tokens \in { NoResult, [status |-> "FailedPrecondition"] }
    /\ detok_text \in { NoResult, [status |-> "FailedPrecondition"] }

\* Both functions have returned the precondition error for an id outside
\* the vocabulary of a model without support for detokenization.
C16_Witness ==
  /\ ~config_.support_detokenization
  /\ detok_input = << Len(config_.vocab) >>
  /\ detok_tokens = [status |-> "FailedPrecondition"]
  /\ detok_text = [status |-> "FailedPrecondition"]

\* The same for the empty id list.
C16_WitnessEmpty ==
  /\ ~config_.support_detokenization
  /\ detok_input = << >>
  /\ detok_tokens = [status |-> "FailedPrecondition"]
  /\ detok_text = [status |-> "FailedPrecondition"]

\* The state of the Tokenize call: its arguments, its locals and the
\* containers it writes.
TokenizeCall == << call, scanner, tokenizer >>

\* A step of a detokenize function that runs alone: it returns what the
\* function computes from its ids, and writes nothing else.
SerialDetokenizeStep ==
  /\ UNCHANGED TokenizeCall
  /\ \/ /\ detok_tokens = NoResult
        /\ detok_tokens' = DetokenizeToTokens(detok_input')
        /\ detok_text' = detok_text
     \/ /\ detok_tokens # NoResult
        /\ detok_text = NoResult
        /\ detok_text' = Detokenize(detok_input)
        /\ UNCHANGED << detok_input, detok_tokens >>

LimitedMaxMatch(m, w) ==
  IF Len(w) > m.max_bytes_per_token
  THEN << [id |-> VocabId(m.vocab, m.unk_token), start |-> 0, end |-> Len(w)] >>
  ELSE MaxMatch(m, w, TRUE)

RECURSIVE LimitedTokensOfWords(_, _, _)
LimitedTokensOfWords(m, text, words) ==
  IF words = << >> THEN << >>
  ELSE Shift(LimitedMaxMatch(m, Slice(text, Head(words).start, Head(words).end)),
             Head(words).start)
         \o LimitedTokensOfWords(m, text, Tail(words))

\* The words of the text that start where the current outer iteration
\* started.
WordsAtWordStart ==
  LET words == SplitWords(input, 0, -1)
  IN  { i \in 1..Len(words) : words[i].start = input_word_offset_in_text }

\* The word of the current outer iteration is longer than the limit.
CurrentWordTooLong ==
  LET words == SplitWords(input, 0, -1)
  IN  \E i \in WordsAtWordStart :
        words[i].end - words[i].start > config_.max_bytes_per_token

\* Single-word mode: the call returns the unknown token spanning the word
\* when the word is longer than max_bytes_per_token, and the normal
\* tokenization otherwise.
C18_SingleWord ==
  (Returned /\ cfg \in BuiltConfigs /\ ~config_.end_to_end) =>
    EmittedTokens = Shift(LimitedMaxMatch(config_, input), word_offset)

\* End-to-end mode, a call that has returned: each word longer than
\* max_bytes_per_token has given one unknown token up to the next word
\* boundary and nothing else, each other word its normal tokens.
C18_TextReturned ==
  (Returned /\ cfg \in BuiltConfigs /\ config_.end_to_end
     /\ ~Contains(input, config_.suffix_indicator)) =>
    EmittedTokens = LimitedTokensOfWords(config_, input, SplitWords(input, 0, -1))

\* End-to-end mode, after the matching loop: a word longer than
\* max_bytes_per_token goes to the handling of unknown words.
C18_TextTaken ==
  (cfg \in BuiltConfigs /\ config_.end_to_end /\ pc = "outside" /\ cur_pos < Len(input)
     /\ CurrentWordTooLong) =>
    ~IsWordBoundary

\* The same for words that are not a single punctuation or CJK code point.
C18_TextTakenInRuns ==
  (cfg \in BuiltConfigs /\ config_.end_to_end /\ pc = "outside" /\ cur_pos < Len(input)
     /\ CurrentWordTooLong
     /\ ~IsPunctuationOrChineseChar(U8_NEXT(input, input_word_offset_in_text, Len(input)).c)) =>
    ~IsWordBoundary

\* C18: the length limit maps a word to the unknown token exactly when its
\* byte length exceeds max_bytes_per_token, in both modes: a word of at most
\* max_bytes_per_token bytes is tokenized normally, and a longer word yields
\* one unknown token spanning the whole word (in end-to-end mode up to the
\* next word boundary, with nothing emitted for the part of the word before
\* the limit was hit).
C18_LengthLimit == C18_SingleWord /\ C18_TextReturned /\ C18_TextTaken

\* Token i starts a word: in single-word mode at the start of the word, in
\* end-to-end mode where a word of the text starts.
IsFirstOfWord(i) ==
  LET words == SplitWords(input, 0, -1)
  IN  IF config_.end_to_end
      THEN \E k \in 1..Len(words) : words[k].start = token_pos[i].start
      ELSE token_pos[i].start = 0

\* C19: for every emitted token that is not the unknown token, the piece is
\* the input bytes [start, end) of the token, with the suffix indicator in
\* front exactly when the token is not the first token of its word; a
\* suffix token emitted at offset 0 of its word has the suffix indicator
\* counted in its length and gets no extra prefix; a token with id
\* unk_token_id has the piece unk_token.
C19_Pieces ==
  (kGetPieces /\ kGetIds /\ kGetOffsets /\ cfg \in BuiltConfigs) =>
    LET shift == IF config_.end_to_end THEN 0 ELSE word_offset
        si == config_.suffix_indicator
    IN  \A i \in EmittedIndexes :
          IF output_ids[i] = unk_token_id
          THEN output_pieces[i] = config_.unk_token
          ELSE /\ output_pieces[i] =
                    (IF IsFirstOfWord(i) THEN << >> ELSE si) \o Surface(i, shift)
               /\ (IsFirstOfWord(i) /\ vocab_is_suffix_array[output_ids[i]]) =>
                    /\ SpanLength(i) = Len(vocab_array[output_ids[i]]) + Len(si)
                    /\ output_pieces[i] = si \o vocab_array[output_ids[i]]

\* The word "##bz": ##b, a suffix token at offset 0 with a span of three
\* bytes and its piece taken from the input as it is, and ##z, whose piece
\* is the byte "z" with the suffix indicator in front.
C19_Witness ==
  /\ Returned
  /\ cfg = "word"
  /\ input = << ch_hash, ch_hash, ch_b, ch_z >>
  /\ output_pieces = << << ch_hash, ch_hash, ch_b >>, << ch_hash, ch_hash, ch_z >> >>
  /\ output_start_offsets = << 0, 3 >>
  /\ output_end_offsets = << 3, 4 >>
  /\ Surface(2, 0) = << ch_z >>

\* At the start of an outer-loop iteration of tokenize_text,
\* original_num_tokens is the current size of the output.
C20_Fresh ==
  (config_.end_to_end /\ pc = "outer" /\ cur_pos < Len(input)) =>
    original_num_tokens = GetCurrentOutputSize(Out)

\* The unknown-token reset of a word leaves the tokens of the words before
\* it in place: the unknown token is the first entry after them.
C20_EarlierWordsKept ==
  (config_.end_to_end /\ unknown_word /\ pc \in {"outer", "done"}) =>
    GetCurrentOutputSize(Out) = word_first_token + 1

\* C20: in tokenize_text, at the start of every outer-loop iteration (every
\* new word) original_num_tokens equals the current size of the output, so
\* the unknown-token reset of a word never removes or overwrites a token
\* emitted for an earlier word of the same call; also for a model with an
\* empty suffix indicator, where trie_suffix_root is the root node and a
\* flushed word leaves the cursor on the root.
C20_OriginalNumTokens == C20_Fresh /\ C20_EarlierWordsKept

\* C21: after every failure transition the cursor points to a valid trie
\* node, never to kNullNode: TryFollowFailureLinkAndCollectTokens does not
\* move the cursor through a null failure link, also when the current node
\* carries a vocabulary entry and its failure link is kNullNode.
C21_CursorValid ==
  /\ cur_node # kNullNode
  /\ IsNode(config_, cur_node)

====
